---------------------------- MODULE Spec2Model ----------------------------
(***************************************************************************)
(* Verification model of the AntiHub-ALL operations bundle.                *)
(*                                                                         *)
(* Part I  (SpecBoot): the database bootstrap scripts                      *)
(*   docker/postgres/sync-db.sh, sync-plugin-db.sh, and the inline psql    *)
(*   blocks of the two generations of deploy.sh.  One action per SQL       *)
(*   statement of the psql here-documents; every statement runs under      *)
(*   ON_ERROR_STOP=1 and the shell runs under `set -e`.                    *)
(*                                                                         *)
(* Part II (SpecMig, SpecMigReset): the startup migration of the legacy    *)
(*   plugin database into the Backend database, as the merge design        *)
(*   prescribes it: flag, migration lock, migration_state, user mapping,   *)
(*   encrypted credentials, keyed upsert.  One action per step of an       *)
(*   instance's startup path.  SpecMigLive adds the weak fairness of the   *)
(*   instances' progress.                                                  *)
(*                                                                         *)
(* Part III (SpecDeploy): one run of deploy.sh, command deploy or upgrade, *)
(*   one action per compose / psql step of the script under `set -e`; the  *)
(*   inline psql block of deploy() is the one of Part I.                   *)
(*                                                                         *)
(* Part IV (SpecEnv): the .env step of successive deploys in one           *)
(*   directory: backup, copy of the template, kept or generated secrets.   *)
(*                                                                         *)
(* Part V (SpecCfg): how each bootstrap script reads its configuration     *)
(*   values (defaults, carriage returns) before handing them to psql.      *)
(*                                                                         *)
(* Part VI (SpecFetch): the paged log fetch of the quota trend chart.      *)
(*                                                                         *)
(* Part VII (SpecPage): the analytics page: default-channel lookup, load   *)
(*   effect, channel and page selection, responses in any order.           *)
(*                                                                         *)
(* Part VIII (SpecChart): the hourly aggregation of the trend chart.       *)
(***************************************************************************)
EXTENDS Integers, Sequences, FiniteSets, TLC

(***************************************************************************)
(* Bounds                                                                  *)
(***************************************************************************)
\* number of distinct password values a role / a configuration may carry
MaxPass == 2

\* number of Backend process instances starting against the same database
NumInst == 2
\* number of further lock attempts an instance makes while the lock is busy
MaxWait == 1
\* number of pg_isready attempts deploy.sh makes (30 in the script)
ReadyTries == 2
\* number of successive runs of the deploy command in one directory
MaxRuns == 3
\* length, in pieces, of a configuration value
MaxText == 2
\* page size of the trend chart's log requests (200 in the component)
Limit == 2
\* for (let page = 0; page < 5; page++)
MaxPages == 5
\* number of selections the user makes on the analytics page
MaxSelect == 2
\* number of pages the request log table offers
MaxPageNo == 2
\* clock resolution of the trend chart model: instants per hour
TicksPerHour == 2
\* number of logs the two trend fetches return together
MaxLogs == 1

(***************************************************************************)
(* Part I - state                                                          *)
(***************************************************************************)
VARIABLES
    script,     \* which bootstrap script is being run
    cfg,        \* the configuration the script was started with (psql -v ...)
    cluster,    \* the Postgres cluster: roles, databases, grants, extensions
    pc,         \* index of the next step of the script
    status,     \* "running", "ok" (exit 0) or "failed" (non-zero exit)
    log,        \* SQL statements executed by the current run, in order
    run,        \* 1 for the first run, 2 for the run repeated after it
    start,      \* the cluster as it was when the current run began
    end1,       \* the cluster as the first run left it
    rejected    \* the current run had a connection or a statement rejected

bootVars == <<script, cfg, cluster, pc, status, log, run, start, end1, rejected>>

(***************************************************************************)
(* Part II - state of the Migration Coordinator (startup migration of the  *)
(* legacy plugin database into the Backend database)                       *)
(***************************************************************************)
VARIABLES
    flag,       \* MIGRATION_TYPE
    lockKind,   \* "session" (advisory lock) or "ttl" (expiring lock)
    adminId,    \* users.id of ADMIN_USERNAME, 0 when it cannot be resolved
    lock,       \* the instance the lock primitive records as holder, 0 if free
    rec,        \* the migration_state row of this migration name
    ipc,        \* each instance's position in its startup path
    waited,     \* each instance's lock attempts so far
    etype,      \* each instance's current entity type (index into EntityOrder)
    rowIdx,     \* each instance's next legacy row of the current entity type
    tx,         \* each instance's open transaction: the rows upserted in it
    target,     \* the target tables of the Backend database
    copied,     \* the instances that have committed at least one entity type
    snap,       \* the target tables as the first successful run left them
    exitCode,   \* each instance's process exit status (0 while alive)
    hadFailure, \* the instances whose migration run hit a failure
    err,        \* each instance's pending error text, "" when it has none
    deferred    \* the instances whose lock attempt ended without the lock

migVars == <<flag, lockKind, adminId, lock, rec, ipc, waited, etype, rowIdx,
             tx, target, copied, snap, exitCode, hadFailure, err, deferred>>

(***************************************************************************)
(* Part III - state of one run of deploy.sh (deploy / upgrade)             *)
(***************************************************************************)
VARIABLE
    dep         \* cmd: the command given ; pc: the step the run is at ;
                \* status: "running", "ok" (exit 0) or "failed" (exit 1) ;
                \* env0/env: .env existed at the start / exists now ;
                \* tries: pg_isready attempts made ; svc0/svc: state of each
                \* compose service at the start / now ; touched: the services
                \* this run stopped,
                \* started or recreated ; ops: the compose operations of this
                \* run, in order

(***************************************************************************)
(* Part IV - state of the .env step of deploy.sh over repeated deploys     *)
(***************************************************************************)
VARIABLES
    envFile,    \* .env: whether it exists, and the raw text after KEY= of
                \* the first line of each secret (<<>> when there is none)
    envBak,     \* the file $ENV_BACKUP_FILE of this run names, absent when
                \* ENV_BACKUP_FILE is empty
    envLast,    \* .env as it was when the current deploy began
    envPc,      \* "ask": at step 2 of deploy() ; "write": at step 3
    envRuns     \* number of deploy runs begun so far

envVars == <<envFile, envBak, envLast, envPc, envRuns>>

(***************************************************************************)
(* Part V - state of the reading of the database configuration              *)
(***************************************************************************)
VARIABLES
    cfgRaw,     \* the text of POSTGRES_USER, POSTGRES_PASSWORD, POSTGRES_DB
                \* in the environment of the script / after KEY= in .env ;
                \* <<>> when unset, empty or without a line
    reader,     \* the script that has read it, "none" before
    sqlArgs     \* what the script passes to psql as su_user, su_pass, main_db

cfgVars == <<cfgRaw, reader, sqlArgs>>

(***************************************************************************)
(* Part VI - state of the trend chart's log fetch, one per channel          *)
(***************************************************************************)
VARIABLE
    fetch       \* per channel: pc ("idle", "await", "done", "failed"), the
                \* loop variables page and offset, n = logs.length, reqs =
                \* the requests issued (limit, offset), last = length of
                \* the last page received and whether logs.length had
                \* reached the total reported with it

fetchVars == <<fetch>>

(***************************************************************************)
(* Part VII - state of the analytics page                                   *)
(***************************************************************************)
VARIABLES
    ui,         \* the component: mounted ; lookup: state of the
                \* getUiDefaultChannels call ("idle", "pending", "ok",
                \* "failed") and deflt, the channel it returned ("none"
                \* when it returned none) ; the React state
                \* isTabInitialized, activeTab, requestCurrentPage,
                \* isLoadingRequests ; shown: what requestStats /
                \* requestLogs / requestTotalRecords hold ("none"
                \* initially, "data" of a channel and page, "cleared"
                \* after a failed load) ; selects: selections made
    inflight,   \* the usage requests (stats + logs) not yet settled
    issued      \* the usage requests issued so far, in order

pageVars == <<ui, inflight, issued>>

(***************************************************************************)
(* Part VIII - state of the trend chart's aggregation                       *)
(***************************************************************************)
VARIABLE
    chart       \* the QuotaTrendChart component: pc ("loading" while
                \* loadData runs, "shown" after) ; hours: parseInt of the
                \* React state timeRange ; error ; data: the chart points ;
                \* now and logs: the clock reading and the fetched logs of
                \* the last load that set data

chartVars == <<chart>>

\* the state of the parts added after Part III
extVars == <<envVars, cfgVars, fetchVars, pageVars, chartVars>>

\* what the bootstrap scripts leave alone
NonBoot == <<migVars, dep, extVars>>
\* what the Migration Coordinator leaves alone
NonMig == <<bootVars, dep, extVars>>

RoleNames == {"antihub", "antigravity", "legacy_owner"}
DbNames == {"antihub", "antigravity"}
Passwords == 1..MaxPass
Scripts == {"sync_db", "sync_plugin_db", "deploy", "deploy_plugin"}

\* a role is present in pg_roles ; password 0 stands for "no such role"
RoleExists(c, u) == c.pass[u] # 0
\* a database is present in pg_database ; owner "" stands for "no such database"
DbExists(c, d) == c.owner[d] # ""

(***************************************************************************)
(* SQL statements, as functions from a cluster to an outcome.               *)
(***************************************************************************)
Outcome(ok, c) == [ok |-> ok, c |-> c]

\* ALTER USER %I WITH PASSWORD %L
AlterUser(c, u, p) ==
    IF RoleExists(c, u)
    THEN Outcome(TRUE, [c EXCEPT !.pass[u] = p])
    ELSE Outcome(FALSE, c)

\* CREATE USER %I WITH PASSWORD %L
CreateUser(c, u, p) ==
    IF ~RoleExists(c, u)
    THEN Outcome(TRUE, [c EXCEPT !.pass[u] = p])
    ELSE Outcome(FALSE, c)

\* CREATE DATABASE %I OWNER %I : a new, empty database
CreateDatabase(c, d, u) ==
    IF ~DbExists(c, d) /\ RoleExists(c, u)
    THEN Outcome(TRUE, [c EXCEPT !.owner[d] = u, !.data[d] = {}])
    ELSE Outcome(FALSE, c)

\* faulty variant: the database is dropped and created again under the new owner
AlterDatabaseOwner_Recreate(c, d, u) ==
    IF DbExists(c, d) /\ RoleExists(c, u)
    THEN Outcome(TRUE, [c EXCEPT !.owner[d] = u, !.data[d] = {}])
    ELSE Outcome(FALSE, c)

\* ALTER DATABASE %I OWNER TO %I : contents are kept
AlterDatabaseOwner(c, d, u) ==
    IF DbExists(c, d) /\ RoleExists(c, u)
    THEN Outcome(TRUE, [c EXCEPT !.owner[d] = u])
    ELSE Outcome(FALSE, c)

\* GRANT ... TO %I / ALTER DEFAULT PRIVILEGES ... TO %I
Grant(c, priv, d, u) ==
    IF DbExists(c, d) /\ RoleExists(c, u)
    THEN Outcome(TRUE, [c EXCEPT !.grants = @ \cup {<<priv, d, u>>}])
    ELSE Outcome(FALSE, c)

\* CREATE EXTENSION IF NOT EXISTS "uuid-ossp" WITH SCHEMA public
CreateExtensionIfNotExists(c, d) ==
    IF DbExists(c, d)
    THEN Outcome(TRUE, [c EXCEPT !.ext = @ \cup {d}])
    ELSE Outcome(FALSE, c)

(***************************************************************************)
(* A statement as psql's format(...) produces it, and \gexec running it.   *)
(***************************************************************************)
Stmt(op, obj, role, pw) == [op |-> op, obj |-> obj, role |-> role, pw |-> pw]

\* \gexec : the server executes the generated statement text
Exec(c, s) ==
    CASE s.op = "ALTER USER" -> AlterUser(c, s.obj, s.pw)
      [] s.op = "CREATE USER" -> CreateUser(c, s.obj, s.pw)
      [] s.op = "CREATE DATABASE" -> CreateDatabase(c, s.obj, s.role)
      [] s.op = "ALTER DATABASE OWNER" -> AlterDatabaseOwner(c, s.obj, s.role)
      [] s.op = "CREATE EXTENSION" -> CreateExtensionIfNotExists(c, s.obj)
      [] OTHER -> Grant(c, s.op, s.obj, s.role)

(***************************************************************************)
(* The SELECTs of the here-documents: each yields the rows (statement      *)
(* texts) that \gexec then runs; a WHERE that does not hold yields no row. *)
(***************************************************************************)
\* SELECT format('ALTER USER %I WITH PASSWORD %L', :'su_user', :'su_pass')
SelAlterSuPassword(cf) ==
    <<Stmt("ALTER USER", cf.su_user, cf.su_user, cf.su_pass)>>

\* faulty variant: no existence check, CREATE DATABASE is always generated
SelCaseDb_AlwaysCreate(c, d, u) ==
    <<Stmt("CREATE DATABASE", d, u, 0)>>

\* SELECT CASE WHEN EXISTS (pg_database) THEN ALTER DATABASE .. ELSE CREATE DATABASE ..
SelCaseDb(c, d, u) ==
    IF DbExists(c, d)
    THEN <<Stmt("ALTER DATABASE OWNER", d, u, 0)>>
    ELSE <<Stmt("CREATE DATABASE", d, u, 0)>>

\* SELECT format('CREATE DATABASE ..') WHERE NOT EXISTS (pg_database)
SelCreateDbIfAbsent(c, d, u) ==
    IF ~DbExists(c, d) THEN <<Stmt("CREATE DATABASE", d, u, 0)>> ELSE <<>>

\* faulty variant: the re-own statement is never generated
SelAlterDbIfExists_Never(c, d, u) ==
    <<>>

\* SELECT format('ALTER DATABASE .. OWNER TO ..') WHERE EXISTS (pg_database)
SelAlterDbIfExists(c, d, u) ==
    IF DbExists(c, d) THEN <<Stmt("ALTER DATABASE OWNER", d, u, 0)>> ELSE <<>>

\* sync-plugin-db.sh: SELECT CASE WHEN EXISTS (pg_roles) THEN ALTER USER ELSE CREATE USER
SelCasePluginUser(c, cf) ==
    IF RoleExists(c, cf.plugin_user)
    THEN <<Stmt("ALTER USER", cf.plugin_user, cf.plugin_user, cf.plugin_pass)>>
    ELSE <<Stmt("CREATE USER", cf.plugin_user, cf.plugin_user, cf.plugin_pass)>>

\* deploy.sh (plugin generation): CREATE USER WHERE plugin_user <> su_user AND NOT EXISTS
SelCreatePluginUser(c, cf) ==
    IF cf.plugin_user # cf.su_user /\ ~RoleExists(c, cf.plugin_user)
    THEN <<Stmt("CREATE USER", cf.plugin_user, cf.plugin_user, cf.plugin_pass)>>
    ELSE <<>>

\* deploy.sh (plugin generation): ALTER USER WHERE plugin_user <> su_user AND EXISTS
SelAlterPluginUser(c, cf) ==
    IF cf.plugin_user # cf.su_user /\ RoleExists(c, cf.plugin_user)
    THEN <<Stmt("ALTER USER", cf.plugin_user, cf.plugin_user, cf.plugin_pass)>>
    ELSE <<>>

\* SELECT format('GRANT ALL PRIVILEGES ON DATABASE %I TO %I', ..)
SelGrantPluginDb(cf) ==
    <<Stmt("GRANT ALL ON DATABASE", cf.plugin_db, cf.plugin_user, 0)>>

\* second here-document, connected to the plugin database
SelGrantSchema(cf) ==
    <<Stmt("GRANT ALL ON SCHEMA public", cf.plugin_db, cf.plugin_user, 0)>>
SelDefaultPrivTables(cf) ==
    <<Stmt("DEFAULT PRIVILEGES TABLES", cf.plugin_db, cf.plugin_user, 0)>>
SelDefaultPrivSeqs(cf) ==
    <<Stmt("DEFAULT PRIVILEGES SEQUENCES", cf.plugin_db, cf.plugin_user, 0)>>
SelCreateExtension(cf) ==
    <<Stmt("CREATE EXTENSION", cf.plugin_db, cf.plugin_user, 0)>>

(***************************************************************************)
(* The four scripts, as the order of their steps.                          *)
(***************************************************************************)
SecondHereDoc ==
    <<"connect2", "grant_schema", "defpriv_tables", "defpriv_seqs", "create_ext">>

Prog(sc) ==
    CASE sc = "sync_db" ->
           <<"connect1", "alter_su", "case_main", "done">>
      [] sc = "sync_plugin_db" ->
           <<"connect1", "alter_su", "case_main", "case_puser", "case_pdb",
             "grant_pdb">> \o SecondHereDoc \o <<"done">>
      [] sc = "deploy" ->
           <<"connect1", "alter_su", "create_main", "alter_main", "done">>
      [] sc = "deploy_plugin" ->
           <<"connect1", "alter_su", "create_main", "alter_main",
             "create_puser", "alter_puser", "create_pdb", "alter_pdb",
             "grant_pdb">> \o SecondHereDoc \o <<"done">>

HasPlugin(sc) == sc \in {"sync_plugin_db", "deploy_plugin"}

\* the rows the SELECT of a step yields in cluster c under configuration cf
Rows(step, c, cf) ==
    CASE step = "alter_su" -> SelAlterSuPassword(cf)
      [] step = "case_main" -> SelCaseDb(c, cf.main_db, cf.su_user)
      [] step = "create_main" -> SelCreateDbIfAbsent(c, cf.main_db, cf.su_user)
      [] step = "alter_main" -> SelAlterDbIfExists(c, cf.main_db, cf.su_user)
      [] step = "case_puser" -> SelCasePluginUser(c, cf)
      [] step = "create_puser" -> SelCreatePluginUser(c, cf)
      [] step = "alter_puser" -> SelAlterPluginUser(c, cf)
      [] step = "case_pdb" -> SelCaseDb(c, cf.plugin_db, cf.plugin_user)
      [] step = "create_pdb" -> SelCreateDbIfAbsent(c, cf.plugin_db, cf.plugin_user)
      [] step = "alter_pdb" -> SelAlterDbIfExists(c, cf.plugin_db, cf.plugin_user)
      [] step = "grant_pdb" -> SelGrantPluginDb(cf)
      [] step = "grant_schema" -> SelGrantSchema(cf)
      [] step = "defpriv_tables" -> SelDefaultPrivTables(cf)
      [] step = "defpriv_seqs" -> SelDefaultPrivSeqs(cf)
      [] step = "create_ext" -> SelCreateExtension(cf)
      [] OTHER -> <<>>

At(step) == status = "running" /\ Prog(script)[pc] = step

(***************************************************************************)
(* Part I - initial states: any configuration, any cluster a reused data   *)
(* volume may hold (stale passwords, absent roles, foreign owners).        *)
(***************************************************************************)
Configs(sc) ==
    { [su_user |-> "antihub", su_pass |-> sp, main_db |-> "antihub",
       plugin_db |-> "antigravity", plugin_user |-> pu, plugin_pass |-> pp] :
        sp \in Passwords,
        pu \in (IF HasPlugin(sc) THEN {"antihub", "antigravity"} ELSE {"antigravity"}),
        pp \in (IF HasPlugin(sc) THEN Passwords ELSE {1}) }

InitClusters ==
    { [pass |-> [r \in RoleNames |->
                    CASE r = "antihub" -> pa [] r = "antigravity" -> pg [] OTHER -> 1],
       owner |-> [d \in DbNames |-> IF d = "antihub" THEN oa ELSE og],
       data |-> [d \in DbNames |->
                    IF (IF d = "antihub" THEN oa ELSE og) = "" THEN {} ELSE {"t1"}],
       grants |-> {},
       ext |-> {}] :
        pa \in 0..MaxPass, pg \in 0..MaxPass,
        oa \in {""} \cup RoleNames, og \in {""} \cup RoleNames }

ClusterOK(c) == \A d \in DbNames : DbExists(c, d) => RoleExists(c, c.owner[d])

InitBoot ==
    /\ script \in Scripts
    /\ cfg \in Configs(script)
    /\ cluster \in {c \in InitClusters : ClusterOK(c)}
    /\ pc = 1
    /\ status = "running"
    /\ log = <<>>
    /\ run = 1
    /\ start = cluster
    /\ end1 = cluster
    /\ rejected = FALSE

(***************************************************************************)
(* Part I - actions                                                        *)
(***************************************************************************)
\* psql opens its connection (-U, -d); nothing is sent if it cannot
Connect(user, dbThere) ==
    /\ \E reachable \in BOOLEAN :
         IF reachable /\ RoleExists(cluster, user) /\ dbThere
         THEN pc' = pc + 1 /\ UNCHANGED <<status, rejected>>
         ELSE pc' = pc /\ status' = "failed" /\ rejected' = TRUE
    /\ UNCHANGED <<script, cfg, cluster, log, run, start, end1>>
    /\ UNCHANGED NonBoot

\* faulty variant: ON_ERROR_STOP is not set, psql goes on after a rejected statement
GExec_Continue(rows) ==
    /\ IF rows = <<>>
       THEN pc' = pc + 1 /\ UNCHANGED <<cluster, log, status, rejected>>
       ELSE \E accepted \in BOOLEAN :
              LET out == Exec(cluster, rows[1]) IN
              IF accepted /\ out.ok
              THEN /\ cluster' = out.c
                   /\ log' = Append(log, rows[1])
                   /\ pc' = pc + 1
                   /\ UNCHANGED <<status, rejected>>
              ELSE /\ rejected' = TRUE
                   /\ pc' = pc + 1
                   /\ UNCHANGED <<cluster, log, status>>
    /\ UNCHANGED <<script, cfg, run, start, end1>>
    /\ UNCHANGED NonBoot

\* \gexec under ON_ERROR_STOP=1 and `set -e`: run each generated row ; the
\* first statement the server rejects ends psql and the script (non-zero)
GExec(rows) ==
    /\ IF rows = <<>>
       THEN pc' = pc + 1 /\ UNCHANGED <<cluster, log, status, rejected>>
       ELSE \E accepted \in BOOLEAN :
              LET out == Exec(cluster, rows[1]) IN
              IF accepted /\ out.ok
              THEN /\ cluster' = out.c
                   /\ log' = Append(log, rows[1])
                   /\ pc' = pc + 1
                   /\ UNCHANGED <<status, rejected>>
              ELSE /\ status' = "failed"
                   /\ rejected' = TRUE
                   /\ UNCHANGED <<cluster, log, pc>>
    /\ UNCHANGED <<script, cfg, run, start, end1>>
    /\ UNCHANGED NonBoot

\* psql -U "$POSTGRES_USER" -d postgres
Connect1 ==
    /\ At("connect1")
    /\ Connect(cfg.su_user, TRUE)

AlterSuPassword ==
    /\ At("alter_su")
    /\ GExec(Rows("alter_su", cluster, cfg))

\* sync-db.sh / sync-plugin-db.sh: one CASE, create or re-own
CaseMainDb ==
    /\ At("case_main")
    /\ GExec(Rows("case_main", cluster, cfg))

\* deploy.sh: two guarded statements, create then re-own
CreateMainDb ==
    /\ At("create_main")
    /\ GExec(Rows("create_main", cluster, cfg))

AlterMainDb ==
    /\ At("alter_main")
    /\ GExec(Rows("alter_main", cluster, cfg))

CasePluginUser ==
    /\ At("case_puser")
    /\ GExec(Rows("case_puser", cluster, cfg))

CreatePluginUser ==
    /\ At("create_puser")
    /\ GExec(Rows("create_puser", cluster, cfg))

AlterPluginUser ==
    /\ At("alter_puser")
    /\ GExec(Rows("alter_puser", cluster, cfg))

CasePluginDb ==
    /\ At("case_pdb")
    /\ GExec(Rows("case_pdb", cluster, cfg))

CreatePluginDb ==
    /\ At("create_pdb")
    /\ GExec(Rows("create_pdb", cluster, cfg))

AlterPluginDb ==
    /\ At("alter_pdb")
    /\ GExec(Rows("alter_pdb", cluster, cfg))

GrantPluginDb ==
    /\ At("grant_pdb")
    /\ GExec(Rows("grant_pdb", cluster, cfg))

\* psql -U "$POSTGRES_USER" -d "$PLUGIN_DB_NAME"
Connect2 ==
    /\ At("connect2")
    /\ Connect(cfg.su_user, DbExists(cluster, cfg.plugin_db))

GrantSchema ==
    /\ At("grant_schema")
    /\ GExec(Rows("grant_schema", cluster, cfg))

DefaultPrivTables ==
    /\ At("defpriv_tables")
    /\ GExec(Rows("defpriv_tables", cluster, cfg))

DefaultPrivSeqs ==
    /\ At("defpriv_seqs")
    /\ GExec(Rows("defpriv_seqs", cluster, cfg))

CreateExtension ==
    /\ At("create_ext")
    /\ GExec(Rows("create_ext", cluster, cfg))

\* echo "[db-init] done." : the script ends with status 0
ScriptDone ==
    /\ At("done")
    /\ status' = "ok"
    /\ UNCHANGED <<script, cfg, cluster, pc, log, run, start, end1, rejected>>
    /\ UNCHANGED NonBoot

\* the operator runs the same script again with the same configuration
Rerun ==
    /\ status = "ok"
    /\ run = 1
    /\ run' = 2
    /\ end1' = cluster
    /\ start' = cluster
    /\ log' = <<>>
    /\ pc' = 1
    /\ status' = "running"
    /\ UNCHANGED <<script, cfg, cluster, rejected>>
    /\ UNCHANGED NonBoot

NextBoot ==
    \/ Connect1 \/ AlterSuPassword
    \/ CaseMainDb \/ CreateMainDb \/ AlterMainDb
    \/ CasePluginUser \/ CreatePluginUser \/ AlterPluginUser
    \/ CasePluginDb \/ CreatePluginDb \/ AlterPluginDb
    \/ GrantPluginDb
    \/ Connect2 \/ GrantSchema \/ DefaultPrivTables \/ DefaultPrivSeqs
    \/ CreateExtension
    \/ ScriptDone \/ Rerun

(***************************************************************************)
(* Part II - the Migration Coordinator                                     *)
(***************************************************************************)
Inst == 1..NumInst

\* the legacy (plugin) source database: public.accounts, public.model_quotas
LegacyAccounts ==
    << [cookie_id |-> "acct-123", user_id |-> "uuid-unmapped",
        token |-> "tok-1", name |-> "n1", is_shared |-> TRUE],
       [cookie_id |-> "acct-456", user_id |-> "uuid-mapped",
        token |-> "tok-2", name |-> "n2", is_shared |-> FALSE] >>

LegacyQuotas ==
    << [cookie_id |-> "acct-123", model_name |-> "gemini", quota |-> "0.5"] >>

\* plugin_api_keys: plugin_user_id (UUID) -> user_id (int)
UserMapping == [u \in {"uuid-mapped"} |-> 2]

\* PLUGIN_API_ENCRYPTION_KEY
EncKey == "fernet-key"

\* faulty variant: the quota rows are copied first
EntityOrder_QuotasFirst == <<"quotas", "accounts">>

\* the fixed order of the entity types: accounts before per-account quotas
EntityOrder == <<"accounts", "quotas">>

Source(t) == IF t = "accounts" THEN LegacyAccounts ELSE LegacyQuotas

\* a credentials value: plaintext as the legacy columns hold it, or a Fernet
\* token (key, IV/timestamp, payload) ; Fernet draws the IV afresh for every
\* token, so the tokens of two runs differ: the IV is modelled by the
\* identity of the run that drew it
Plain(v) == [enc |-> FALSE, k |-> "", iv |-> 0, body |-> v]
\* faulty variant: the token is stored as it is
Encrypt_Plaintext(k, v, iv) == [enc |-> FALSE, k |-> "", iv |-> 0, body |-> v]
Encrypt(k, v, iv) == [enc |-> TRUE, k |-> k, iv |-> iv, body |-> v]
Decrypt(k, c) == IF c.enc /\ c.k = k THEN Plain(c.body) ELSE Plain("invalid-token")

\* faulty variant: every row goes to the administrator
ResolveOwner_AlwaysAdmin(uuid, admin) == admin

\* user mapping rule: mapped user, else the administrator, else 0 (failure)
ResolveOwner(uuid, admin) ==
    IF uuid \in DOMAIN UserMapping THEN UserMapping[uuid] ELSE admin

\* legacy row -> target row ; is_shared is dropped
Transform(t, r, admin, iv) ==
    IF t = "accounts"
    THEN [key |-> r.cookie_id, ref |-> "", owner |-> ResolveOwner(r.user_id, admin),
          val |-> r.name, cred |-> Encrypt(EncKey, r.token, iv)]
    ELSE [key |-> r.cookie_id \o "/" \o r.model_name, ref |-> r.cookie_id,
          owner |-> 0, val |-> r.quota, cred |-> Plain("")]

\* faulty variant: plain INSERT, no ON CONFLICT on the natural key
Upsert_InsertOnly(table, row) ==
    table \cup {row}

\* faulty variant: the update of an existing row leaves the owner column
\* out of the statement's values, so the row loses its owner
Upsert_DropOwnerOnUpdate(table, row) ==
    IF \E r \in table : r.key = row.key
    THEN {r \in table : r.key # row.key} \cup {[row EXCEPT !.owner = 0]}
    ELSE table \cup {row}

\* keyed upsert: update in place when the key exists, insert otherwise
Upsert(table, row) ==
    {r \in table : r.key # row.key} \cup {row}

RECURSIVE UpsertAll(_, _)
UpsertAll(table, rows) ==
    IF rows = <<>> THEN table
    ELSE UpsertAll(Upsert(table, Head(rows)), Tail(rows))

EmptyTables == [t \in {"accounts", "quotas"} |-> {}]

\* positions in which an instance acts as the holder of the migration lock
HolderStates ==
    {"locked", "connect", "copy", "finalize", "failing", "release_ok", "release_failed"}

\* faulty variant: a failed migration is logged and startup continues
AfterRelease_Serve(failed) == "serving"

\* where startup goes once the lock is released
AfterRelease(failed) == IF failed THEN "exited" ELSE "serving"

\* faulty variant: the busy lock is ignored and the instance migrates anyway
OnLockBusy_Proceed == "connect"
\* faulty variant: the instance skips the migration and goes on to serve
OnLockBusy_Skip == "serving"

\* what an instance does when the lock is held by another instance
OnLockBusy == "exited_busy"

InitMig ==
    /\ flag \in BOOLEAN
    /\ lockKind \in {"session", "ttl"}
    /\ adminId \in {0, 1}
    /\ lock = 0
    /\ rec = [status |-> "none", last_error |-> ""]
    /\ ipc = [i \in Inst |-> "start"]
    /\ waited = [i \in Inst |-> 0]
    /\ etype = [i \in Inst |-> 1]
    /\ rowIdx = [i \in Inst |-> 1]
    /\ tx = [i \in Inst |-> <<>>]
    /\ target = EmptyTables
    /\ copied = {}
    /\ snap = [taken |-> FALSE, t |-> EmptyTables]
    /\ exitCode = [i \in Inst |-> 0]
    /\ hadFailure = {}
    /\ err = [i \in Inst |-> ""]
    /\ deferred = {}

(***************************************************************************)
(* Part II - actions, one per step of the startup path of an instance      *)
(***************************************************************************)
\* MIGRATION_TYPE=false: the migration is skipped, startup continues
Disabled(i) ==
    /\ ipc[i] = "start"
    /\ ~flag
    /\ ipc' = [ipc EXCEPT ![i] = "serving"]
    /\ UNCHANGED <<flag, lockKind, adminId, lock, rec, waited, etype, rowIdx, tx,
                   target, copied, snap, exitCode, hadFailure, err,
                   deferred>>
    /\ UNCHANGED NonMig

\* faulty variant: the record is not consulted, the lock is always attempted
CheckState_NoSkip(i) ==
    /\ ipc[i] = "start"
    /\ flag
    /\ ipc' = [ipc EXCEPT ![i] = "acquiring"]
    /\ UNCHANGED <<flag, lockKind, adminId, lock, rec, waited, etype, rowIdx, tx,
                   target, copied, snap, exitCode, hadFailure, err, deferred>>
    /\ UNCHANGED NonMig

\* fast path: migration_state is consulted before the lock is attempted
CheckState(i) ==
    /\ ipc[i] = "start"
    /\ flag
    /\ ipc' = [ipc EXCEPT ![i] =
                 IF rec.status = "succeeded" THEN "serving" ELSE "acquiring"]
    /\ UNCHANGED <<flag, lockKind, adminId, lock, rec, waited, etype, rowIdx, tx,
                   target, copied, snap, exitCode, hadFailure, err,
                   deferred>>
    /\ UNCHANGED NonMig

\* faulty variant: the lock is taken without looking at its current holder
TryLock_NoCheck(i) ==
    /\ ipc[i] = "acquiring"
    /\ lock' = i
    /\ ipc' = [ipc EXCEPT ![i] = "locked"]
    /\ UNCHANGED <<flag, lockKind, adminId, rec, waited, etype, rowIdx, tx,
                   target, copied, snap, exitCode, hadFailure, err,
                   deferred>>
    /\ UNCHANGED NonMig

\* the lock is free: this instance becomes the holder
TryLock(i) ==
    /\ ipc[i] = "acquiring"
    /\ lock = 0
    /\ lock' = i
    /\ ipc' = [ipc EXCEPT ![i] = "locked"]
    /\ waited' = [waited EXCEPT ![i] = 0]
    /\ UNCHANGED <<flag, lockKind, adminId, rec, etype, rowIdx, tx,
                   target, copied, snap, exitCode, hadFailure, err,
                   deferred>>
    /\ UNCHANGED NonMig

\* the lock is busy and the bounded wait is not used up: try again later
WaitLock(i) ==
    /\ ipc[i] = "acquiring"
    /\ lock # 0
    /\ waited[i] < MaxWait
    /\ waited' = [waited EXCEPT ![i] = @ + 1]
    /\ UNCHANGED <<flag, lockKind, adminId, lock, rec, ipc, etype, rowIdx, tx,
                   target, copied, snap, exitCode, hadFailure, err,
                   deferred>>
    /\ UNCHANGED NonMig

\* the lock is still busy: "already migrating", the instance exits
LockNotAcquired(i) ==
    /\ ipc[i] = "acquiring"
    /\ lock # 0
    /\ waited[i] >= MaxWait
    /\ ipc' = [ipc EXCEPT ![i] = OnLockBusy]
    /\ \E code \in {0, 1} : exitCode' = [exitCode EXCEPT ![i] = code]
    /\ deferred' = deferred \cup {i}
    /\ UNCHANGED <<flag, lockKind, adminId, lock, rec, waited, etype, rowIdx, tx,
                   target, copied, snap, hadFailure, err>>
    /\ UNCHANGED NonMig

\* Running: migration_state is upserted to running
MarkRunning(i) ==
    /\ ipc[i] = "locked"
    /\ rec' = [status |-> "running", last_error |-> ""]
    /\ ipc' = [ipc EXCEPT ![i] = "connect"]
    /\ UNCHANGED <<flag, lockKind, adminId, lock, waited, etype, rowIdx, tx,
                   target, copied, snap, exitCode, hadFailure, err,
                   deferred>>
    /\ UNCHANGED NonMig

\* MIGRATION_SQLURL must be connectable, otherwise the migration fails
ConnectSource(i) ==
    /\ ipc[i] = "connect"
    /\ \E reachable \in BOOLEAN :
         IF reachable
         THEN /\ ipc' = [ipc EXCEPT ![i] = "copy"]
              /\ etype' = [etype EXCEPT ![i] = 1]
              /\ rowIdx' = [rowIdx EXCEPT ![i] = 1]
              /\ tx' = [tx EXCEPT ![i] = <<>>]
              /\ UNCHANGED <<rec, hadFailure, err>>
         ELSE /\ ipc' = [ipc EXCEPT ![i] = "failing"]
              /\ err' = [err EXCEPT ![i] = "source unreachable"]
              /\ hadFailure' = hadFailure \cup {i}
              /\ UNCHANGED <<rec, etype, rowIdx, tx>>
    /\ UNCHANGED <<flag, lockKind, adminId, lock, waited, target, copied,
                   snap, exitCode, deferred>>
    /\ UNCHANGED NonMig

\* faulty variant: every row is upserted and committed by itself
CopyRow_AutoCommit(i) ==
    /\ ipc[i] = "copy"
    /\ rowIdx[i] <= Len(Source(EntityOrder[etype[i]]))
    /\ LET t == EntityOrder[etype[i]]
           r == Source(t)[rowIdx[i]]
           row == Transform(t, r, adminId, i)
           unowned == t = "accounts" /\ row.owner = 0
       IN \E accepted \in BOOLEAN :
            IF accepted /\ ~unowned
            THEN /\ target' = [target EXCEPT ![t] = Upsert(@, row)]
                 /\ tx' = [tx EXCEPT ![i] = Append(@, row)]
                 /\ rowIdx' = [rowIdx EXCEPT ![i] = @ + 1]
                 /\ UNCHANGED <<ipc, rec, hadFailure, err, etype>>
            ELSE /\ tx' = [tx EXCEPT ![i] = <<>>]
                 /\ ipc' = [ipc EXCEPT ![i] = "failing"]
                 /\ err' = [err EXCEPT ![i] =
                              IF unowned THEN "no admin user" ELSE "upsert failed"]
                 /\ hadFailure' = hadFailure \cup {i}
                 /\ rec' = rec
                 /\ target' = target
                 /\ rowIdx' = [rowIdx EXCEPT ![i] = 1]
                 /\ etype' = [etype EXCEPT ![i] = 1]
    /\ UNCHANGED <<flag, lockKind, adminId, lock, waited, copied,
                   snap, exitCode, deferred>>
    /\ UNCHANGED NonMig

\* faulty variant: a row whose owner cannot be resolved is written all the same
CopyRow_NoOwnerCheck(i) ==
    /\ ipc[i] = "copy"
    /\ rowIdx[i] <= Len(Source(EntityOrder[etype[i]]))
    /\ LET t == EntityOrder[etype[i]]
           r == Source(t)[rowIdx[i]]
           row == Transform(t, r, adminId, i)
       IN \E accepted \in BOOLEAN :
            IF accepted
            THEN /\ tx' = [tx EXCEPT ![i] = Append(@, row)]
                 /\ rowIdx' = [rowIdx EXCEPT ![i] = @ + 1]
                 /\ UNCHANGED <<ipc, rec, hadFailure, err, etype>>
            ELSE /\ tx' = [tx EXCEPT ![i] = <<>>]
                 /\ ipc' = [ipc EXCEPT ![i] = "failing"]
                 /\ err' = [err EXCEPT ![i] = "upsert failed"]
                 /\ hadFailure' = hadFailure \cup {i}
                 /\ rec' = rec
                 /\ rowIdx' = [rowIdx EXCEPT ![i] = 1]
                 /\ etype' = [etype EXCEPT ![i] = 1]
    /\ UNCHANGED <<flag, lockKind, adminId, lock, waited, target, copied,
                   snap, exitCode, deferred>>
    /\ UNCHANGED NonMig

\* one legacy row: resolve the owner, encrypt the credentials, upsert inside
\* the entity type's transaction ; any error rolls the transaction back
CopyRow(i) ==
    /\ ipc[i] = "copy"
    /\ rowIdx[i] <= Len(Source(EntityOrder[etype[i]]))
    /\ LET t == EntityOrder[etype[i]]
           r == Source(t)[rowIdx[i]]
           row == Transform(t, r, adminId, i)
           unowned == t = "accounts" /\ row.owner = 0
       IN \E accepted \in BOOLEAN :
            IF accepted /\ ~unowned
            THEN /\ tx' = [tx EXCEPT ![i] = Append(@, row)]
                 /\ rowIdx' = [rowIdx EXCEPT ![i] = @ + 1]
                 /\ UNCHANGED <<ipc, rec, hadFailure, err, etype>>
            ELSE /\ tx' = [tx EXCEPT ![i] = <<>>]
                 /\ ipc' = [ipc EXCEPT ![i] = "failing"]
                 /\ err' = [err EXCEPT ![i] =
                              IF unowned THEN "no admin user" ELSE "upsert failed"]
                 /\ hadFailure' = hadFailure \cup {i}
                 /\ rec' = rec
                 /\ rowIdx' = [rowIdx EXCEPT ![i] = 1]
                 /\ etype' = [etype EXCEPT ![i] = 1]
    /\ UNCHANGED <<flag, lockKind, adminId, lock, waited, target, copied,
                   snap, exitCode, deferred>>
    /\ UNCHANGED NonMig

\* all rows of the entity type are upserted: commit, go to the next type
CommitType(i) ==
    /\ ipc[i] = "copy"
    /\ rowIdx[i] > Len(Source(EntityOrder[etype[i]]))
    /\ LET t == EntityOrder[etype[i]] IN
         target' = [target EXCEPT ![t] = UpsertAll(@, tx[i])]
    /\ tx' = [tx EXCEPT ![i] = <<>>]
    /\ copied' = copied \cup {i}
    /\ IF etype[i] < Len(EntityOrder)
       THEN /\ etype' = [etype EXCEPT ![i] = @ + 1]
            /\ rowIdx' = [rowIdx EXCEPT ![i] = 1]
            /\ ipc' = ipc
       ELSE /\ ipc' = [ipc EXCEPT ![i] = "finalize"]
            /\ etype' = [etype EXCEPT ![i] = 1]
            /\ rowIdx' = [rowIdx EXCEPT ![i] = 1]
    /\ UNCHANGED <<flag, lockKind, adminId, lock, rec, waited, snap,
                   exitCode, hadFailure, err, deferred>>
    /\ UNCHANGED NonMig

\* Succeeded: migration_state is finalized to succeeded
FinalizeSucceeded(i) ==
    /\ ipc[i] = "finalize"
    /\ rec' = [status |-> "succeeded", last_error |-> ""]
    /\ snap' = IF snap.taken THEN snap ELSE [taken |-> TRUE, t |-> target]
    /\ ipc' = [ipc EXCEPT ![i] = "release_ok"]
    /\ UNCHANGED <<flag, lockKind, adminId, lock, waited, etype, rowIdx, tx,
                   target, copied, exitCode, hadFailure, err, deferred>>
    /\ UNCHANGED NonMig

\* faulty variant: the failing run leaves the record as it is
FinalizeFailed_NoRecord(i) ==
    /\ ipc[i] = "failing"
    /\ err' = [err EXCEPT ![i] = ""]
    /\ ipc' = [ipc EXCEPT ![i] = "release_failed"]
    /\ UNCHANGED <<flag, lockKind, adminId, lock, rec, waited, etype, rowIdx, tx,
                   target, copied, snap, exitCode, hadFailure, deferred>>
    /\ UNCHANGED NonMig

\* faulty variant: the failure is recorded without its error text
FinalizeFailed_NoText(i) ==
    /\ ipc[i] = "failing"
    /\ rec' = [status |-> "failed", last_error |-> ""]
    /\ err' = [err EXCEPT ![i] = ""]
    /\ ipc' = [ipc EXCEPT ![i] = "release_failed"]
    /\ UNCHANGED <<flag, lockKind, adminId, lock, waited, etype, rowIdx, tx,
                   target, copied, snap, exitCode, hadFailure, deferred>>
    /\ UNCHANGED NonMig

\* Failed: migration_state is finalized to failed, with last_error
FinalizeFailed(i) ==
    /\ ipc[i] = "failing"
    /\ rec' = [status |-> "failed", last_error |-> err[i]]
    /\ err' = [err EXCEPT ![i] = ""]
    /\ ipc' = [ipc EXCEPT ![i] = "release_failed"]
    /\ UNCHANGED <<flag, lockKind, adminId, lock, waited, etype, rowIdx, tx,
                   target, copied, snap, exitCode, hadFailure, deferred>>
    /\ UNCHANGED NonMig

\* faulty variant: the migration ends without unlocking
ReleaseLock_Keep(i) ==
    /\ ipc[i] \in {"release_ok", "release_failed"}
    /\ LET next == AfterRelease(ipc[i] = "release_failed") IN
         /\ ipc' = [ipc EXCEPT ![i] = next]
         /\ exitCode' = [exitCode EXCEPT ![i] = IF next = "exited" THEN 1 ELSE 0]
    /\ UNCHANGED <<flag, lockKind, adminId, lock, rec, waited, etype, rowIdx, tx,
                   target, copied, snap, hadFailure, err, deferred>>
    /\ UNCHANGED NonMig

\* the migration ends: the lock is released ; on success startup continues,
\* on failure the process exits
ReleaseLock(i) ==
    /\ ipc[i] \in {"release_ok", "release_failed"}
    /\ lock' = IF lock = i THEN 0 ELSE lock
    /\ LET next == AfterRelease(ipc[i] = "release_failed") IN
         /\ ipc' = [ipc EXCEPT ![i] = next]
         /\ exitCode' = [exitCode EXCEPT ![i] = IF next = "exited" THEN 1 ELSE 0]
    /\ UNCHANGED <<flag, lockKind, adminId, rec, waited, etype, rowIdx, tx,
                   target, copied, snap, hadFailure, err, deferred>>
    /\ UNCHANGED NonMig

\* the holder's process dies: its open transaction is rolled back and a
\* session-bound lock goes with its session ; an expiring lock stays
Crash(i) ==
    /\ ipc[i] \in HolderStates
    /\ ipc' = [ipc EXCEPT ![i] = "crashed"]
    /\ tx' = [tx EXCEPT ![i] = <<>>]
    /\ exitCode' = [exitCode EXCEPT ![i] = 1]
    /\ lock' = IF lockKind = "session" /\ lock = i THEN 0 ELSE lock
    /\ etype' = [etype EXCEPT ![i] = 1]
    /\ rowIdx' = [rowIdx EXCEPT ![i] = 1]
    /\ err' = [err EXCEPT ![i] = ""]
    /\ UNCHANGED <<flag, lockKind, adminId, rec, waited,
                   target, copied, snap, hadFailure, deferred>>
    /\ UNCHANGED NonMig

\* an expiring lock times out, whatever its holder is doing
Expire ==
    /\ lockKind = "ttl"
    /\ lock # 0
    /\ lock' = 0
    /\ UNCHANGED <<flag, lockKind, adminId, rec, ipc, waited, etype, rowIdx, tx,
                   target, copied, snap, exitCode, hadFailure, err,
                   deferred>>
    /\ UNCHANGED NonMig

\* an operator discards the migration_state row between runs
ResetRecord ==
    /\ rec.status \in {"succeeded", "failed"}
    /\ \A i \in Inst : ipc[i] \notin HolderStates
    /\ rec' = [status |-> "none", last_error |-> ""]
    /\ UNCHANGED <<flag, lockKind, adminId, lock, ipc, waited, etype, rowIdx, tx,
                   target, copied, snap, exitCode, hadFailure, err,
                   deferred>>
    /\ UNCHANGED NonMig

NextMig ==
    \/ \E i \in Inst :
         \/ Disabled(i) \/ CheckState(i)
         \/ TryLock(i) \/ WaitLock(i) \/ LockNotAcquired(i)
         \/ MarkRunning(i) \/ ConnectSource(i) \/ CopyRow(i) \/ CommitType(i)
         \/ FinalizeSucceeded(i) \/ FinalizeFailed(i) \/ ReleaseLock(i)
         \/ Crash(i)
    \/ Expire

(***************************************************************************)
(* Part III - deploy.sh: the deploy and the upgrade command.  The psql     *)
(* block of deploy() is the "deploy" script of Part I, run statement by    *)
(* statement while the run is at its SQL step.                             *)
(***************************************************************************)
Services == {"postgres", "redis", "backend", "web"}
DbServices == {"postgres", "redis"}
AppServices == {"backend", "web"}

InitDeploy ==
    dep \in [cmd : {"deploy", "upgrade"},
             pc : {"prepare"},
             status : {"running"},
             env0 : BOOLEAN,
             env : BOOLEAN,
             tries : {0},
             svc0 : [Services -> {"up", "down"}],
             svc : [Services -> {"up", "down"}],
             touched : {{}},
             ops : {<<>>}]
    /\ dep.env = dep.env0
    /\ dep.svc = dep.svc0

DepAt(step) == dep.status = "running" /\ dep.pc = step

\* set -e: a failing command ends the run with a non-zero status
DepFail == [dep EXCEPT !.status = "failed"]
DepGoto(step) == [dep EXCEPT !.pc = step]

DepFrame == UNCHANGED <<bootVars, migVars, extVars>>

\* fix_permissions ; prepare_compose (exit 1 without compose file or docker)
Prepare ==
    /\ DepAt("prepare")
    /\ \E ok \in BOOLEAN :
         dep' = IF ~ok THEN DepFail
                ELSE IF dep.cmd = "upgrade" THEN DepGoto("u_env")
                ELSE DepGoto("d_env")
    /\ DepFrame

\* upgrade: without .env the directory is not deployed yet, deploy() runs
UpgradeCheckEnv ==
    /\ DepAt("u_env")
    /\ dep' = IF dep.env THEN DepGoto("u_pull") ELSE DepGoto("d_prepare")
    /\ DepFrame

\* deploy() called from upgrade(): fix_permissions ; prepare_compose again
DeployPrepare ==
    /\ DepAt("d_prepare")
    /\ \E ok \in BOOLEAN : dep' = IF ok THEN DepGoto("d_env") ELSE DepFail
    /\ DepFrame

\* deploy steps 2-3: keep the existing .env, or generate it from .env.example
DeployEnv ==
    /\ DepAt("d_env")
    /\ \E keep \in BOOLEAN, example \in BOOLEAN :
         dep' = IF dep.env /\ keep THEN DepGoto("d_pull")
                ELSE IF ~example THEN DepFail
                ELSE [dep EXCEPT !.pc = "d_pull", !.env = TRUE]
    /\ DepFrame

\* deploy step 4: compose pull
DeployPull ==
    /\ DepAt("d_pull")
    /\ \E ok \in BOOLEAN : dep' = IF ok THEN DepGoto("d_down") ELSE DepFail
    /\ DepFrame

\* deploy step 5: compose down 2>/dev/null || true
DeployDown ==
    /\ DepAt("d_down")
    /\ \E ok \in BOOLEAN :
         dep' = IF ok
                THEN [dep EXCEPT !.pc = "d_up_db",
                                 !.svc = [x \in Services |-> "down"],
                                 !.touched = @ \cup {x \in Services : dep.svc[x] = "up"},
                                 !.ops = Append(@, "down")]
                ELSE DepGoto("d_up_db")
    /\ DepFrame

\* deploy step 6: compose up -d postgres redis
DeployUpDb ==
    /\ DepAt("d_up_db")
    /\ \E ok \in BOOLEAN :
         dep' = IF ok
                THEN [dep EXCEPT !.pc = "d_ready",
                                 !.svc = [x \in Services |->
                                            IF x \in DbServices THEN "up" ELSE @[x]],
                                 !.touched = @ \cup {x \in DbServices : dep.svc[x] # "up"},
                                 !.ops = Append(@, "up_db")]
                ELSE DepFail
    /\ DepFrame

\* for i in {1..30}: pg_isready ; exit 1 when the last attempt fails
DeployWaitReady ==
    /\ DepAt("d_ready")
    /\ \E ready \in BOOLEAN :
         dep' = IF ready THEN DepGoto("d_sql")
                ELSE IF dep.tries + 1 >= ReadyTries
                     THEN [dep EXCEPT !.status = "failed", !.tries = @ + 1]
                     ELSE [dep EXCEPT !.tries = @ + 1]
    /\ DepFrame

\* compose exec -T postgres psql ... <<EOSQL: one step of the psql block
DeploySql ==
    /\ DepAt("d_sql")
    /\ script = "deploy"
    /\ \/ Connect1
       \/ AlterSuPassword
       \/ CreateMainDb
       \/ AlterMainDb
       \/ ScriptDone

\* faulty variant: without set -e the run goes on after a failed psql
DeploySqlEnd_IgnoreFailure ==
    /\ DepAt("d_sql")
    /\ status \in {"ok", "failed"}
    /\ dep' = DepGoto("d_up_app")
    /\ DepFrame

\* psql has ended: set -e ends the run unless it exited 0
DeploySqlEnd ==
    /\ DepAt("d_sql")
    /\ status \in {"ok", "failed"}
    /\ dep' = IF status = "ok" THEN DepGoto("d_up_app") ELSE DepFail
    /\ DepFrame

\* compose up -d backend web
DeployUpApp ==
    /\ DepAt("d_up_app")
    /\ \E ok \in BOOLEAN :
         dep' = IF ok
                THEN [dep EXCEPT !.pc = "d_check",
                                 !.svc = [x \in Services |->
                                            IF x \in AppServices THEN "up" ELSE @[x]],
                                 !.touched = @ \cup AppServices,
                                 !.ops = Append(@, "up_app")]
                ELSE DepFail
    /\ DepFrame

\* compose ps --filter status=exited: any exited service fails the deploy
DeployCheck ==
    /\ DepAt("d_check")
    /\ \E exited \in SUBSET Services :
         dep' = IF exited = {}
                THEN [dep EXCEPT !.status = "ok"]
                ELSE [dep EXCEPT !.status = "failed",
                                 !.svc = [x \in Services |->
                                            IF x \in exited THEN "down" ELSE @[x]]]
    /\ DepFrame

\* upgrade: cp .env backup ; compose pull web backend
UpgradePull ==
    /\ DepAt("u_pull")
    /\ \E ok \in BOOLEAN : dep' = IF ok THEN DepGoto("u_up") ELSE DepFail
    /\ DepFrame

\* faulty variant: without --no-deps compose also brings up postgres and redis
UpgradeUpApp_WithDeps ==
    /\ DepAt("u_up")
    /\ \E ok \in BOOLEAN :
         dep' = IF ok
                THEN [dep EXCEPT !.pc = "u_check",
                                 !.svc = [x \in Services |-> "up"],
                                 !.touched = @ \cup AppServices
                                               \cup {x \in DbServices : dep.svc[x] # "up"},
                                 !.ops = Append(@, "up_app")]
                ELSE DepFail
    /\ DepFrame

\* upgrade: compose up -d --no-deps web backend
UpgradeUpApp ==
    /\ DepAt("u_up")
    /\ \E ok \in BOOLEAN :
         dep' = IF ok
                THEN [dep EXCEPT !.pc = "u_check",
                                 !.svc = [x \in Services |->
                                            IF x \in AppServices THEN "up" ELSE @[x]],
                                 !.touched = @ \cup AppServices,
                                 !.ops = Append(@, "up_app")]
                ELSE DepFail
    /\ DepFrame

\* upgrade: an exited web/backend fails the upgrade ; an exited postgres/redis
\* is only reported
UpgradeCheck ==
    /\ DepAt("u_check")
    /\ \E exited \in SUBSET AppServices :
         dep' = IF exited = {}
                THEN [dep EXCEPT !.status = "ok"]
                ELSE [dep EXCEPT !.status = "failed",
                                 !.svc = [x \in Services |->
                                            IF x \in exited THEN "down" ELSE @[x]]]
    /\ DepFrame

NextDeploy ==
    \/ Prepare \/ UpgradeCheckEnv \/ DeployPrepare \/ DeployEnv
    \/ DeployPull \/ DeployDown \/ DeployUpDb \/ DeployWaitReady
    \/ DeploySql \/ DeploySqlEnd \/ DeployUpApp \/ DeployCheck
    \/ UpgradePull \/ UpgradeUpApp \/ UpgradeCheck

(***************************************************************************)
(* Part IV - deploy.sh, steps 2 and 3 of deploy(): the .env file and its   *)
(* secrets over successive runs.  A text is a sequence of pieces; the      *)
(* piece "CR" is a carriage return.                                        *)
(***************************************************************************)
SecretKeys == {"JWT_SECRET_KEY", "POSTGRES_PASSWORD", "PLUGIN_API_ENCRYPTION_KEY"}

\* the value .env.example carries for the key
Placeholder(k) ==
    IF k = "PLUGIN_API_ENCRYPTION_KEY"
    THEN "please-generate-a-valid-fernet-key" ELSE "please-change-me"

\* tr -d '\r' ; ${value//$'\r'/}
StripCr(v) == SelectSeq(v, LAMBDA c : c # "CR")

NoFile == [exists |-> FALSE, val |-> [k \in SecretKeys |-> <<>>]]
\* cp .env.example .env
EnvTemplate == [exists |-> TRUE, val |-> [k \in SecretKeys |-> <<Placeholder(k)>>]]

\* the texts a hand-written or generated .env may hold after KEY=
EnvTexts(k) ==
    {<<>>, <<"CR">>, <<Placeholder(k)>>, <<Placeholder(k), "CR">>,
     <<"s1">>, <<"s1", "CR">>}

\* get_env_value FILE KEY: nothing when the file is missing, else the text
\* of the line without carriage returns
GetEnvValue(file, k) == IF file.exists THEN StripCr(file.val[k]) ELSE <<>>

\* [ -n "$OLD" ] && [ "$OLD" != placeholder ]
KeepOld(k, old) == old # <<>> /\ old # <<Placeholder(k)>>

\* generate_random_key / generate_fernet_key: a fresh value at every call
GenerateKey(k, n) == <<"random", k, ToString(n)>>

\* the generators run by the host's openssl / python3 or else by docker run ;
\* when that fails, the assignment of JWT_SECRET or ENCRYPTION_KEY ends the
\* script (set -e), while the pipeline into cut yields an empty password
GenAborts(old) ==
    \E k \in {"JWT_SECRET_KEY", "PLUGIN_API_ENCRYPTION_KEY"} : ~KeepOld(k, old[k])

\* step 3.3 and write_env_file: the secrets the new .env gets
WriteEnvFile(old, n, genOk) ==
    [exists |-> TRUE,
     val |-> [k \in SecretKeys |->
                IF KeepOld(k, old[k]) THEN old[k]
                ELSE IF genOk THEN GenerateKey(k, n) ELSE <<>>]]

InitEnv ==
    /\ envFile \in {NoFile} \cup
                   [exists : {TRUE}, val : [SecretKeys -> UNION {EnvTexts(k) : k \in SecretKeys}]]
    /\ \A k \in SecretKeys : envFile.val[k] \in EnvTexts(k)
    /\ envBak = NoFile
    /\ envLast = envFile
    /\ envPc = "ask"
    /\ envRuns = 0

EnvFrame == UNCHANGED <<bootVars, migVars, dep, cfgVars, fetchVars, pageVars, chartVars>>

\* deploy() step 2: an existing .env is kept, or backed up to be overwritten
EnvAsk ==
    /\ envPc = "ask"
    /\ envRuns < MaxRuns
    /\ envRuns' = envRuns + 1
    /\ envLast' = envFile
    /\ envFile' = envFile
    /\ IF envFile.exists
       THEN \E reply \in {"y", "n"} :
              IF reply = "y"
              THEN \E cpOk \in BOOLEAN :
                     IF cpOk THEN envBak' = envFile /\ envPc' = "write"
                     ELSE envBak' = NoFile /\ envPc' = "ask"
              ELSE envBak' = NoFile /\ envPc' = "ask"
       ELSE envBak' = NoFile /\ envPc' = "write"
    /\ EnvFrame

\* deploy() step 3: .env.example is copied to .env, the secrets are taken
\* from the backup or generated, and write_env_file puts them in
EnvWrite ==
    /\ envPc = "write"
    /\ envPc' = "ask"
    /\ \E template, genOk \in BOOLEAN :
         LET old == [k \in SecretKeys |-> GetEnvValue(envBak, k)] IN
           envFile' = IF ~template THEN envFile
                      ELSE IF ~genOk /\ GenAborts(old) THEN EnvTemplate
                      ELSE WriteEnvFile(old, envRuns, genOk)
    /\ UNCHANGED <<envBak, envLast, envRuns>>
    /\ EnvFrame

NextEnv == EnvAsk \/ EnvWrite

(***************************************************************************)
(* Part V - how the bootstrap scripts obtain the values they pass to psql  *)
(***************************************************************************)
ConfigKeys == {"POSTGRES_USER", "POSTGRES_PASSWORD", "POSTGRES_DB"}
Pieces == {"a", "=", "CR"}
Texts == UNION {[1..n -> Pieces] : n \in 0..MaxText}

\* the default of ${VAR:-default}
DefaultOf(k) == IF k = "POSTGRES_PASSWORD" THEN <<"please-change-me">> ELSE <<"antihub">>

\* ${VAR:-default}: the default replaces an unset or empty value
WithDefault(v, d) == IF v = <<>> THEN d ELSE v

\* cut -d'=' -f2 on the line KEY=value: the value up to its first "="
RECURSIVE CutField2(_)
CutField2(v) ==
    IF v = <<>> \/ Head(v) = "=" THEN <<>> ELSE <<Head(v)>> \o CutField2(Tail(v))

InitCfg ==
    /\ cfgRaw \in [ConfigKeys -> Texts]
    /\ reader = "none"
    /\ sqlArgs = [k \in ConfigKeys |-> <<>>]

CfgFrame == UNCHANGED <<bootVars, migVars, dep, envVars, fetchVars, pageVars, chartVars>>

\* sync-db.sh: VAR=$(strip_cr "${VAR:-default}")
SyncDbRead ==
    /\ reader = "none"
    /\ reader' = "sync_db"
    /\ sqlArgs' = [k \in ConfigKeys |-> StripCr(WithDefault(cfgRaw[k], DefaultOf(k)))]
    /\ UNCHANGED cfgRaw
    /\ CfgFrame

\* sync-plugin-db.sh reads the same three variables the same way
SyncPluginDbRead ==
    /\ reader = "none"
    /\ reader' = "sync_plugin_db"
    /\ sqlArgs' = [k \in ConfigKeys |-> StripCr(WithDefault(cfgRaw[k], DefaultOf(k)))]
    /\ UNCHANGED cfgRaw
    /\ CfgFrame

\* deploy(): X=$(grep "^KEY=" .env | cut -d'=' -f2 || echo default) ; the
\* status of the pipeline is the status of cut, so the default is never
\* used ; -f2- for the password
DeployRead ==
    /\ reader = "none"
    /\ reader' = "deploy"
    /\ sqlArgs' = [k \in ConfigKeys |->
                     IF k = "POSTGRES_PASSWORD" THEN cfgRaw[k] ELSE CutField2(cfgRaw[k])]
    /\ UNCHANGED cfgRaw
    /\ CfgFrame

NextCfg == SyncDbRead \/ SyncPluginDbRead \/ DeployRead

(***************************************************************************)
(* Part VI - quota-trend-chart.tsx, fetchLogsForTrend: the paged fetch of  *)
(* the usage logs of one channel.  The server answers a request with a     *)
(* page of at most `limit` logs and the total it counts at that moment, or *)
(* the request fails.                                                      *)
(***************************************************************************)
Channels == {"antigravity", "kiro"}
\* the largest total the server reports
MaxTotal == MaxPages * Limit + 1

FetchIdle ==
    [pc |-> "idle", page |-> 0, offset |-> 0, n |-> 0, reqs |-> <<>>,
     last |-> [len |-> 0, reached |-> FALSE]]

InitFetch == fetch = [c \in Channels |-> FetchIdle]

FetchFrame == UNCHANGED <<bootVars, migVars, dep, envVars, cfgVars, pageVars, chartVars>>

\* getRequestUsageLogs({config_type, limit, offset, start_date, end_date})
Request(f) == [f EXCEPT !.pc = "await",
                        !.reqs = Append(@, [limit |-> Limit, offset |-> f.offset])]

\* fetchLogsForTrend(c) is called: the loop is entered and the first
\* request is issued
FetchStart(c) ==
    /\ fetch[c].pc = "idle"
    /\ fetch' = [fetch EXCEPT ![c] = Request(@)]
    /\ FetchFrame

\* faulty variant: a short page does not end the loop
StopsAfter_TotalOnly(n, len, total) == n >= total
\* the two break conditions after logs.push(...result.logs)
StopsAfter(n, len, total) == n >= total \/ len < Limit

\* a page arrives: it is appended, and the loop breaks, ends or goes on
\* with the next request
FetchRespond(c) ==
    /\ fetch[c].pc = "await"
    /\ \E len \in 0..Limit, total \in 0..MaxTotal :
         LET f == fetch[c]
             got == [f EXCEPT !.n = @ + len,
                              !.last = [len |-> len, reached |-> f.n + len >= total]]
         IN fetch' = [fetch EXCEPT ![c] =
              IF StopsAfter(got.n, len, total)
              THEN [got EXCEPT !.pc = "done"]
              ELSE IF f.page + 1 < MaxPages
                   THEN Request([got EXCEPT !.offset = @ + Limit, !.page = @ + 1])
                   ELSE [got EXCEPT !.offset = @ + Limit, !.page = @ + 1,
                                    !.pc = "done"]]
    /\ FetchFrame

\* the request fails: the await throws and fetchLogsForTrend rejects
FetchReject(c) ==
    /\ fetch[c].pc = "await"
    /\ fetch' = [fetch EXCEPT ![c].pc = "failed"]
    /\ FetchFrame

NextFetch == \E c \in Channels : FetchStart(c) \/ FetchRespond(c) \/ FetchReject(c)

(***************************************************************************)
(* Part VII - app/dashboard/analytics/page.tsx: the init effect, the load  *)
(* effect and the two selection handlers.  One action per handler or       *)
(* continuation ; the state updates of one continuation are rendered       *)
(* together and the effects whose dependencies changed run with them.      *)
(***************************************************************************)
\* ConfigType (three of its seven members)
Tabs == {"antigravity", "kiro", "qwen"}
PageNos == 1..MaxPageNo

NoData == [kind |-> "none", tab |-> "", page |-> 0]
Cleared == [kind |-> "cleared", tab |-> "", page |-> 0]

InitPage ==
    /\ ui = [mounted |-> FALSE, lookup |-> "idle", deflt |-> "none",
             initialized |-> FALSE, activeTab |-> "antigravity",
             currentPage |-> 1, loading |-> TRUE, shown |-> NoData,
             selects |-> 0]
    /\ inflight = {}
    /\ issued = <<>>

PageFrame == UNCHANGED <<bootVars, migVars, dep, envVars, cfgVars, fetchVars, chartVars>>

\* faulty variant: the load effect does not wait for the initialization
LoadGuard_Always(p) == TRUE
\* if (!isTabInitialized) return
LoadGuard(p) == p.initialized

\* the dependencies of the load effect
LoadDeps(p) == <<p.initialized, p.activeTab, p.currentPage>>

\* the load effect runs: setIsLoadingRequests(true) and the two requests
\* for the current channel and page
RunLoad(p) ==
    /\ ui' = [p EXCEPT !.loading = TRUE]
    /\ inflight' = inflight \cup
          {[id |-> Len(issued) + 1, tab |-> p.activeTab, page |-> p.currentPage]}
    /\ issued' = Append(issued, [tab |-> p.activeTab, page |-> p.currentPage])

\* the component renders with state p: the load effect runs when one of
\* its dependencies changed
Render(p) ==
    IF LoadDeps(p) # LoadDeps(ui) /\ LoadGuard(p)
    THEN RunLoad(p)
    ELSE ui' = p /\ UNCHANGED <<inflight, issued>>

\* first render: both effects run, the init effect calls
\* getUiDefaultChannels
Mount ==
    /\ ~ui.mounted
    /\ LET p == [ui EXCEPT !.mounted = TRUE, !.lookup = "pending"] IN
         IF LoadGuard(p) THEN RunLoad(p)
         ELSE ui' = p /\ UNCHANGED <<inflight, issued>>
    /\ PageFrame

\* getUiDefaultChannels resolves: setActiveTab when a default is
\* configured, then setIsTabInitialized(true)
LookupResolve ==
    /\ ui.lookup = "pending"
    /\ \E d \in Tabs \cup {"none"} :
         Render([ui EXCEPT !.lookup = "ok", !.deflt = d,
                           !.activeTab = IF d # "none" THEN d ELSE @,
                           !.initialized = TRUE])
    /\ PageFrame

\* getUiDefaultChannels rejects: catch {} and setIsTabInitialized(true)
LookupReject ==
    /\ ui.lookup = "pending"
    /\ Render([ui EXCEPT !.lookup = "failed", !.initialized = TRUE])
    /\ PageFrame

\* the page shows its controls unless it is loading with nothing to show
ControlsShown == ui.mounted /\ ~(ui.loading /\ ui.shown.kind # "data")

\* Select onValueChange: setActiveTab(value) ; setRequestCurrentPage(1)
SelectTab(v) ==
    /\ ControlsShown
    /\ ui.selects < MaxSelect
    /\ v # ui.activeTab
    /\ Render([ui EXCEPT !.activeTab = v, !.currentPage = 1, !.selects = @ + 1])
    /\ PageFrame

\* the pagination is rendered inside the branch of the request records
\* card that is taken when isLoadingRequests is false and logs exist
PaginationShown == ui.mounted /\ ~ui.loading /\ ui.shown.kind = "data"

\* handleRequestPageChange(page)
SelectPage(n) ==
    /\ PaginationShown
    /\ ui.selects < MaxSelect
    /\ n # ui.currentPage
    /\ Render([ui EXCEPT !.currentPage = n, !.selects = @ + 1])
    /\ PageFrame

\* both requests of a load resolved: its stats, logs and total are set
LoadResolve(r) ==
    /\ r \in inflight
    /\ inflight' = inflight \ {r}
    /\ ui' = [ui EXCEPT !.shown = [kind |-> "data", tab |-> r.tab, page |-> r.page],
                        !.loading = FALSE]
    /\ UNCHANGED issued
    /\ PageFrame

\* a request of a load failed: toast, and stats, logs and total are reset
LoadReject(r) ==
    /\ r \in inflight
    /\ inflight' = inflight \ {r}
    /\ ui' = [ui EXCEPT !.shown = Cleared, !.loading = FALSE]
    /\ UNCHANGED issued
    /\ PageFrame

LookupSettles == LookupResolve \/ LookupReject

NextPage ==
    \/ Mount \/ LookupResolve \/ LookupReject
    \/ \E v \in Tabs : SelectTab(v)
    \/ \E n \in PageNos : SelectPage(n)
    \/ \E r \in inflight : LoadResolve(r) \/ LoadReject(r)

(***************************************************************************)
(* Part VIII - the trend chart aggregates the fetched logs by hour          *)
(*                                                                         *)
(* components/quota-trend-chart.tsx, loadData after the two fetches of     *)
(* Part VI have returned.  Instants are counted in ticks, TicksPerHour of  *)
(* them to the hour ; an hour key is the UTC date and hour of an instant.  *)
(***************************************************************************)
\* the values of the range Select
Ranges == {24, 48, 168}

\* `${getUTCFullYear()}-${getUTCMonth()+1}-${getUTCDate()}-${getUTCHours()}`:
\* the UTC day and the hour of that day
HourKey(t) == <<(t \div TicksPerHour) \div 24, (t \div TicksPerHour) % 24>>

\* the clock readings a load may take: on the hour, and inside an hour
NowBase == 200 * TicksPerHour
Nows == {NowBase, NowBase + 1}

\* created_at of a fetched log: <<t>> for an instant t up to a day before
\* the clock reading, or <<>> for none
CreatedAts(now) ==
    {<<now>>, <<now - 1>>, <<now - TicksPerHour>>, <<now - 24 * TicksPerHour>>, <<>>}

\* a fetched log ; total_tokens is <<>> when null
LogItems(now) ==
    [channel : Channels, created_at : CreatedAts(now), total_tokens : {<<>>, <<1>>}]

\* the logs of both fetches, of at most MaxLogs items together
FetchedLogs(now) ==
    UNION {[1..n -> LogItems(now)] : n \in 0..MaxLogs}

\* Number(record.total_tokens || 0)
Tokens(record) == IF record.total_tokens = <<>> THEN 0 ELSE record.total_tokens[1]

\* hourlyData.get(key)[c] after both forEach loops: records without
\* created_at are skipped
RECURSIVE HourlyData(_, _, _)
HourlyData(logs, c, key) ==
    IF logs = <<>> THEN 0
    ELSE LET record == Head(logs) IN
         (IF /\ record.channel = c
             /\ record.created_at # <<>>
             /\ HourKey(record.created_at[1]) = key
          THEN Tokens(record) ELSE 0)
         + HourlyData(Tail(logs), c, key)

\* the instant of chart point i (i = 0 .. hours - 1)
PointTime(now, hours, i) == now - (hours - i) * TicksPerHour

\* for (let i = 0; i < hours; i++) chartData.push(...)
ChartData(now, hours, logs) ==
    [n \in 1..hours |->
        LET key == HourKey(PointTime(now, hours, n - 1)) IN
        [time |-> key,
         antigravity |-> HourlyData(logs, "antigravity", key),
         kiro |-> HourlyData(logs, "kiro", key)]]

InitChart ==
    chart = [pc |-> "loading", hours |-> 24, error |-> FALSE, data |-> <<>>,
             now |-> NowBase, logs |-> <<>>]

ChartFrame == UNCHANGED <<bootVars, migVars, dep, envVars, cfgVars, fetchVars, pageVars>>

\* both fetches returned: the chart points are computed and set
ChartLoad ==
    /\ chart.pc = "loading"
    /\ \E now \in Nows : \E logs \in FetchedLogs(now) :
         chart' = [chart EXCEPT !.pc = "shown", !.error = FALSE,
                                !.now = now, !.logs = logs,
                                !.data = ChartData(now, chart.hours, logs)]
    /\ ChartFrame

\* a fetch threw: catch sets error, data stays
ChartFail ==
    /\ chart.pc = "loading"
    /\ chart' = [chart EXCEPT !.pc = "shown", !.error = TRUE]
    /\ ChartFrame

\* Select onValueChange={setTimeRange}: rendered only when neither loading
\* nor in error ; the effect runs again for the new range
SelectRange(h) ==
    /\ chart.pc = "shown"
    /\ ~chart.error
    /\ h # chart.hours
    /\ chart' = [chart EXCEPT !.pc = "loading", !.hours = h]
    /\ ChartFrame

NextChart ==
    \/ ChartLoad
    \/ ChartFail
    \/ \E h \in Ranges : SelectRange(h)

(***************************************************************************)
(* Specifications                                                          *)
(***************************************************************************)
vars == <<bootVars, migVars, dep, extVars>>

\* while the bootstrap scripts run, no Backend instance has started
MigIdle ==
    /\ flag = FALSE
    /\ lockKind = "session"
    /\ adminId = 1
    /\ InitMig

\* the Migration Coordinator runs against a bootstrapped cluster
BootIdle ==
    /\ script = "sync_db"
    /\ InitBoot
    /\ cfg.su_pass = 1
    /\ cluster.pass = [r \in RoleNames |-> 1]
    /\ cluster.owner = [d \in DbNames |-> "antihub"]

\* no deploy.sh run while the scripts or the Coordinator are studied
DeployIdle ==
    /\ InitDeploy
    /\ dep.cmd = "deploy"
    /\ dep.env
    /\ dep.svc = [x \in Services |-> "up"]

\* the directory has a generated .env and no deploy is at its .env step
EnvIdle ==
    /\ envFile = [exists |-> TRUE, val |-> [k \in SecretKeys |-> <<"s1">>]]
    /\ InitEnv

\* no script is reading the configuration
CfgIdle ==
    /\ cfgRaw = [k \in ConfigKeys |-> <<"a">>]
    /\ InitCfg

ExtIdle == EnvIdle /\ CfgIdle /\ InitFetch /\ InitPage /\ InitChart

InitB == InitBoot /\ MigIdle /\ DeployIdle /\ ExtIdle
SpecBoot == InitB /\ [][NextBoot]_vars

InitM == BootIdle /\ InitMig /\ DeployIdle /\ ExtIdle
SpecMig == InitM /\ [][NextMig]_vars

(***************************************************************************)
(* Part I - properties of the bootstrap scripts (under SpecBoot)           *)
(***************************************************************************)
Step == Prog(script)[pc]
ConnectSteps == {"connect1", "connect2"}
DestructiveOps == {"DROP DATABASE", "DROP USER", "CREATE DATABASE", "CREATE USER"}
RoleOps == {"ALTER USER", "CREATE USER", "DROP USER"}
LogOps == {log[k].op : k \in 1..Len(log)}
\* the statements of the current run that act on database d
DbLog(d) == {log[k] : k \in {n \in 1..Len(log) : log[n].obj = d /\ log[n].op \notin RoleOps}}

\* the statement the next step would send is one the server accepts
NextStmtAccepted ==
    LET rows == Rows(Step, cluster, cfg) IN
    rows = <<>> \/ Exec(cluster, rows[1]).ok

\* C1: a second run with the same configuration, after a first run that
\* completed, issues no DROP and no CREATE DATABASE / CREATE USER, sends no
\* statement the cluster left by the first run would reject, and ends in
\* exactly the state the first run ended in (passwords, existence and
\* ownership of databases, grants, extension).
C1_BootstrapIdempotent ==
    run = 2 =>
      /\ LogOps \cap DestructiveOps = {}
      /\ status = "running" => NextStmtAccepted
      /\ status = "ok" => cluster = end1

C1_Witness ==
    /\ run = 2
    /\ status = "ok"
    /\ script = "sync_plugin_db"
    /\ Len(log) = 9
    /\ cluster.ext = {"antigravity"}

\* C2: a run that completes successfully leaves every configured database
\* existing and owned by its configured role, whether the database was
\* absent, owned by the primary role or owned by another role before.
C2_BootstrapConverges ==
    status = "ok" =>
      /\ DbExists(cluster, cfg.main_db)
      /\ cluster.owner[cfg.main_db] = cfg.su_user
      /\ HasPlugin(script) =>
           /\ DbExists(cluster, cfg.plugin_db)
           /\ cluster.owner[cfg.plugin_db] = cfg.plugin_user

C2_Witness ==
    /\ status = "ok"
    /\ run = 1
    /\ script = "deploy"
    /\ start.owner[cfg.main_db] = "legacy_owner"
    /\ cluster.owner[cfg.main_db] = "antihub"

C4_PasswordsMatchConfig ==
    status = "ok" =>
      /\ cluster.pass[cfg.su_user] = cfg.su_pass
      /\ HasPlugin(script) => cluster.pass[cfg.plugin_user] = cfg.plugin_pass

SecondHereDocOps ==
    {"GRANT ALL ON SCHEMA public", "DEFAULT PRIVILEGES TABLES",
     "DEFAULT PRIVILEGES SEQUENCES", "CREATE EXTENSION"}

\* a rejected connection or statement ends the script with a non-zero
\* status, and nothing of the script runs after it
StopsAtFirstError ==
    /\ rejected => status = "failed"
    /\ status = "failed" => ~ENABLED NextBoot

\* C5 as stated: fail-fast as above, and when a connection to Postgres fails
\* no statement has been executed at all.
C5_FailFastNoStatementAtAll ==
    /\ StopsAtFirstError
    /\ status = "failed" /\ Step \in ConnectSteps => log = <<>>

\* C5 amended: fail-fast as above; when the connection of a psql invocation
\* fails, no statement of that invocation or of a later one has been executed
\* (the statements of an earlier invocation of the same run stay applied).
C5_FailFast ==
    /\ StopsAtFirstError
    /\ status = "failed" /\ Step = "connect1" => log = <<>>
    /\ status = "failed" /\ Step = "connect2" => LogOps \cap SecondHereDocOps = {}

C5_Witness ==
    /\ status = "failed"
    /\ rejected
    /\ script = "sync_plugin_db"
    /\ Step = "connect2"
    /\ Len(log) = 5

\* the Migration Coordinator, with an operator who may reset migration_state
NextMigReset == NextMig \/ ResetRecord
SpecMigReset == InitM /\ [][NextMigReset]_vars

(***************************************************************************)
(* deploy.sh against any cluster a data volume may hold (the plugin role    *)
(* and database play no part in it)                                        *)
(***************************************************************************)
InitD ==
    /\ InitBoot
    /\ script = "deploy"
    /\ cluster.pass["antigravity"] = 0
    /\ cluster.owner["antigravity"] = ""
    /\ MigIdle
    /\ InitDeploy
    /\ ExtIdle
SpecDeploy == InitD /\ [][NextDeploy]_vars

(***************************************************************************)
(* Part II - properties of the Migration Coordinator                       *)
(***************************************************************************)
Holders == {i \in Inst : ipc[i] \in HolderStates}
Writers == {i \in Inst : ipc[i] = "copy" \/ tx[i] # <<>>}
Crashed == {i \in Inst : ipc[i] = "crashed"}

C8_FatalOnFailure ==
    /\ flag =>
         \A i \in hadFailure :
           /\ ipc[i] # "serving"
           /\ ipc[i] = "exited" => exitCode[i] # 0
    /\ ~flag =>
         /\ \A i \in Inst : ipc[i] \in {"start", "serving"} /\ exitCode[i] = 0
         /\ hadFailure = {}
         /\ lock = 0
         /\ rec.status = "none"
         /\ target = EmptyTables

C8_Witness ==
    /\ flag
    /\ \E i \in hadFailure :
         /\ ipc[i] = "exited"
         /\ exitCode[i] = 1
         /\ rec.status = "failed"
         /\ rec.last_error = "source unreachable"

PlainRow(r) == IF r.cred.enc THEN [r EXCEPT !.cred = Decrypt(EncKey, r.cred)] ELSE r
PlainView(tbls) == [t \in DOMAIN tbls |-> {PlainRow(r) : r \in tbls[t]}]
NoDupKeys(tbls) ==
    \A t \in DOMAIN tbls : \A r1, r2 \in tbls[t] : r1.key = r2.key => r1 = r2
Quiescent == Holders = {}

InstStep(i) ==
    \/ Disabled(i) \/ CheckState(i)
    \/ TryLock(i) \/ WaitLock(i) \/ LockNotAcquired(i)
    \/ MarkRunning(i) \/ ConnectSource(i) \/ CopyRow(i) \/ CommitType(i)
    \/ FinalizeSucceeded(i) \/ FinalizeFailed(i) \/ ReleaseLock(i)
    \/ Crash(i)

\* instance i is invoked (leaves "start") while the record says succeeded
InvokedOnSucceeded(i) ==
    /\ flag
    /\ ipc[i] = "start"
    /\ rec.status = "succeeded"
    /\ ipc'[i] # "start"

Progress(i) ==
    \/ Disabled(i) \/ CheckState(i)
    \/ TryLock(i) \/ WaitLock(i) \/ LockNotAcquired(i)
    \/ MarkRunning(i) \/ ConnectSource(i) \/ CopyRow(i) \/ CommitType(i)
    \/ FinalizeSucceeded(i) \/ FinalizeFailed(i) \/ ReleaseLock(i)

\* some live instance takes its next step, or an expiring lock expires ;
\* every instance has finitely many steps, so each of them gets its turn
AnyProgress == (\E i \in Inst : Progress(i)) \/ Expire

\* the instances keep running (a crash is never forced)
SpecMigLive ==
    /\ InitM
    /\ [][NextMig]_vars
    /\ WF_vars(AnyProgress)

AccountRowsOf(i) ==
    IF ipc[i] = "copy" /\ EntityOrder[etype[i]] = "accounts"
    THEN {tx[i][k] : k \in 1..Len(tx[i])} ELSE {}
AccountRows == target["accounts"] \cup UNION {AccountRowsOf(i) : i \in Inst}
LegacyAccountSet == {LegacyAccounts[k] : k \in 1..Len(LegacyAccounts)}

\* C13: every account row written carries the owner the mapping rule
\* gives its legacy row: the mapped Backend user when plugin_api_keys maps
\* the legacy user id, the administrator's users.id when it does not.
C13_MappingFallback ==
    \A r \in AccountRows :
      \E l \in LegacyAccountSet :
        /\ l.cookie_id = r.key
        /\ l.user_id \in DOMAIN UserMapping => r.owner = UserMapping[l.user_id]
        /\ l.user_id \notin DOMAIN UserMapping => r.owner = adminId

C13_Witness ==
    /\ adminId = 1
    /\ \E r1, r2 \in target["accounts"] :
         /\ r1.key = "acct-123" /\ r1.owner = 1
         /\ r2.key = "acct-456" /\ r2.owner = 2
    /\ rec.status = "succeeded"

\* instance i is about to copy an account whose legacy user has no mapping
AtUnmappedAccount(i) ==
    /\ ipc[i] = "copy"
    /\ EntityOrder[etype[i]] = "accounts"
    /\ rowIdx[i] <= Len(LegacyAccounts)
    /\ LegacyAccounts[rowIdx[i]].user_id \notin DOMAIN UserMapping

\* C14: when the administrator cannot be resolved, copying an account
\* without a user mapping fails: the transaction of the entity type is
\* rolled back and the instance goes on to record the failure; the record is
\* finalized to failed with an error text; the migration never succeeds and
\* no instance serves; and no account row is ever written without an owner.
C14_AdminUnresolvableFails ==
    /\ [](\A r \in AccountRows : r.owner # 0)
    /\ [](adminId = 0 /\ flag =>
            /\ rec.status # "succeeded"
            /\ target = EmptyTables
            /\ \A i \in Inst : ipc[i] # "serving")
    /\ [][\A i \in Inst :
            adminId = 0 /\ AtUnmappedAccount(i) /\ ipc'[i] # "crashed"
              /\ <<ipc[i], rowIdx[i]>> # <<ipc'[i], rowIdx'[i]>> =>
                /\ ipc'[i] = "failing"
                /\ tx'[i] = <<>>
                /\ target' = target]_vars
    /\ [][\A i \in Inst :
            ipc[i] = "failing" /\ ipc'[i] = "release_failed" =>
              rec'.status = "failed" /\ rec'.last_error # ""]_vars

C14_Witness ==
    /\ adminId = 0
    /\ rec = [status |-> "failed", last_error |-> "no admin user"]
    /\ target = EmptyTables
    /\ \E i \in hadFailure : ipc[i] = "exited" /\ exitCode[i] = 1

\* instance i commits the whole of entity type t in this step
CommitsWholeType(i, t) ==
    /\ ipc[i] = "copy"
    /\ EntityOrder[etype[i]] = t
    /\ Len(tx[i]) = Len(Source(t))
    /\ target' = [target EXCEPT ![t] = UpsertAll(@, tx[i])]
    /\ tx'[i] = <<>>

\* the copy of instance i breaks off in this step (failure or crash)
CopyBreaksOff(i) ==
    ipc[i] = "copy" /\ ipc'[i] \in {"failing", "crashed"}

\* C15: a target table changes only by the commit of a whole entity type;
\* when the copy of an entity type breaks off midway, the rows upserted so
\* far for that type are rolled back and every target table stays as it is,
\* so the types the run had completed remain committed.
C15_PerTypeAtomicity ==
    /\ [][target' # target =>
            \E i \in Inst : \E t \in DOMAIN target : CommitsWholeType(i, t)]_vars
    /\ [][\A i \in Inst :
            CopyBreaksOff(i) => target' = target /\ tx'[i] = <<>>]_vars

C15_Witness ==
    \E i \in hadFailure :
      /\ copied = {i}
      /\ ipc[i] = "exited"
      /\ Cardinality(target["accounts"]) = Len(LegacyAccounts)
      /\ target["quotas"] = {}
      /\ rec = [status |-> "failed", last_error |-> "upsert failed"]

QuotaRowsOf(i) ==
    IF ipc[i] = "copy" /\ EntityOrder[etype[i]] = "quotas"
    THEN {tx[i][k] : k \in 1..Len(tx[i])} ELSE {}
QuotaRows == target["quotas"] \cup UNION {QuotaRowsOf(i) : i \in Inst}
AccountKeys == {a.key : a \in target["accounts"]}

\* C19: the accounts are copied and committed before the quota rows: an
\* instance that is copying quota rows has committed the accounts, and every
\* quota row written, committed or in an open transaction, references an
\* account key that is present in the target account table.
C19_AccountsBeforeQuotas ==
    /\ \A i \in Inst :
         ipc[i] = "copy" /\ EntityOrder[etype[i]] = "quotas" => i \in copied
    /\ \A q \in QuotaRows : q.ref \in AccountKeys

C19_Witness ==
    /\ \E q \in target["quotas"] : q.ref = "acct-123" /\ q.key = "acct-123/gemini"
    /\ "acct-123" \in AccountKeys
    /\ \E i \in Inst : ipc[i] = "finalize"

\* the owner each natural key of the account table has
OwnerOf(tbl) == {<<r.key, r.owner>> : r \in tbl}
\* the account rows a run has written again over rows that were there
Rewritten ==
    {r \in target["accounts"] :
        \E o \in snap.t["accounts"] : o.key = r.key /\ o # r}

AllCopied ==
    \A t \in DOMAIN target :
        \A k \in 1..Len(Source(t)) :
            \E r \in target[t] : r.key = Transform(t, Source(t)[k], adminId, 0).key
\* instance i holds the lock and is the one that changes the record
RecordWriter(i) == lock = i /\ ipc[i] \in HolderStates /\ ipc'[i] # ipc[i]
\* instance i gives the lock back
Releases(i) == ipc[i] \in {"release_ok", "release_failed"} /\ ipc'[i] # ipc[i]
RecordKept == rec.status # "none" => rec'.status # "none"
RunningByHolder ==
    rec'.status = "running" /\ rec' # rec =>
        \E i \in Inst : RecordWriter(i) /\ ipc[i] = "locked"
FinalizedBeforeRelease ==
    \A i \in Inst :
        /\ Releases(i) /\ ipc[i] = "release_ok" =>
              rec.status = "succeeded" /\ AllCopied
        /\ Releases(i) /\ ipc[i] = "release_failed" =>
              rec.status = "failed" /\ rec.last_error # ""

InitE == BootIdle /\ MigIdle /\ DeployIdle /\ InitEnv /\ CfgIdle /\ InitFetch /\ InitPage /\ InitChart
SpecEnv == InitE /\ [][NextEnv]_vars

(***************************************************************************)
(* Part V - a bootstrap script reads any configuration                     *)
(***************************************************************************)
InitC == BootIdle /\ MigIdle /\ DeployIdle /\ EnvIdle /\ InitCfg /\ InitFetch /\ InitPage /\ InitChart
SpecCfg == InitC /\ [][NextCfg]_vars

(***************************************************************************)
(* Part VI - the trend chart fetches the logs of both channels ; every     *)
(* request is answered or fails                                            *)
(***************************************************************************)
InitF == BootIdle /\ MigIdle /\ DeployIdle /\ ExtIdle
SpecFetch == InitF /\ [][NextFetch]_vars /\ WF_vars(NextFetch)

(***************************************************************************)
(* Part VII - the analytics page is opened ; the component mounts and the  *)
(* default-channel lookup is answered or fails                             *)
(***************************************************************************)
InitP == BootIdle /\ MigIdle /\ DeployIdle /\ ExtIdle
SpecPage == InitP /\ [][NextPage]_vars /\ WF_vars(Mount) /\ WF_vars(LookupSettles)

(***************************************************************************)
(* Part VIII - the trend chart is opened and its ranges are selected       *)
(***************************************************************************)
InitA == BootIdle /\ MigIdle /\ DeployIdle /\ ExtIdle
SpecChart == InitA /\ [][NextChart]_vars

\* instance i begins serving traffic in this step
BeginsServing(i) == ipc[i] # "serving" /\ ipc'[i] = "serving"

DepOps == {dep.ops[k] : k \in 1..Len(dep.ops)}
\* this run has started the application services
AppStarted == "up_app" \in DepOps
\* this run has executed, or tried to execute, the bootstrap SQL
SqlTouched == log # <<>> \/ status # "running" \/ pc # 1
\* the run goes through deploy(): the deploy command, or upgrade without .env
InDeploy == dep.cmd = "deploy" \/ ~dep.env0

\* C17: a run of deploy starts backend/web only after postgres/redis were
\* started, postgres answered pg_isready and the bootstrap SQL ended with
\* status 0, and starting them is the last compose operation it performs;
\* when postgres does not become ready or the bootstrap SQL fails, the run
\* exits non-zero without having started backend/web.
C17_DeploySequencing ==
    InDeploy =>
      /\ AppStarted =>
           /\ status = "ok"
           /\ dep.tries < ReadyTries
           /\ "up_db" \in DepOps
           /\ dep.ops[Len(dep.ops)] = "up_app"
      /\ status = "failed" => dep.status \in {"running", "failed"} /\ ~AppStarted
      /\ status = "failed" /\ dep.pc # "d_sql" => dep.status = "failed"
      /\ dep.tries >= ReadyTries =>
           dep.status = "failed" /\ ~AppStarted /\ ~SqlTouched

C17_Witness ==
    /\ dep.cmd = "deploy"
    /\ dep.status = "ok"
    /\ dep.ops = <<"down", "up_db", "up_app">>
    /\ dep.tries = 1
    /\ status = "ok"
    /\ Len(log) = 2
    /\ start.owner[cfg.main_db] = "legacy_owner"

\* the run has left postgres, redis and the cluster alone
DatabaseUntouched ==
    /\ ~SqlTouched
    /\ cluster = start
    /\ dep.touched \cap DbServices = {}
    /\ \A x \in DbServices : dep.svc[x] = dep.svc0[x]
    /\ DepOps \subseteq {"up_app"}

SecretOf(file, k) == GetEnvValue(file, k)
\* the deploy that is running, or ran last, has overwritten an existing .env
Overwrote == envLast.exists /\ envFile # envLast
\* the file has a usable value for the key
HasSecret(file, k) == file.exists /\ KeepOld(k, SecretOf(file, k))

\* C22: when deploy overwrites an existing .env the previous file is in the
\* backup, every one of the three secrets that had a usable value has the
\* same value in the new .env, and no step of any deploy changes a usable
\* encryption key or database password.
C22_SecretsSurviveRedeploy ==
    /\ [](Overwrote => envBak = envLast)
    /\ [](Overwrote /\ envPc = "ask" =>
            \A k \in SecretKeys :
                HasSecret(envLast, k) => envFile.val[k] = SecretOf(envLast, k))
    /\ [][\A k \in {"POSTGRES_PASSWORD", "PLUGIN_API_ENCRYPTION_KEY"} :
            HasSecret(envFile, k) => SecretOf(envFile', k) = SecretOf(envFile, k)]_vars


(***************************************************************************)
(* Part V - properties of the configuration reading (under SpecCfg)        *)
(***************************************************************************)
HasCr(v) == \E n \in 1..Len(v) : v[n] = "CR"

\* C23: no role name, password or database name that a bootstrap script
\* passes to psql contains a carriage return, whatever text it was read
\* from, in the sync scripts and in the bootstrap step of deploy.
C23_NoCarriageReturnInSql ==
    reader # "none" => \A k \in ConfigKeys : ~HasCr(sqlArgs[k])

(***************************************************************************)
(* Part VI - properties of the trend chart's fetch (under SpecFetch)       *)
(***************************************************************************)
FetchEnded(c) == fetch[c].pc \in {"done", "failed"}

\* C24: for each channel the fetch issues at most MaxPages requests, each
\* with the page size as limit and the offsets 0, limit, 2*limit, ... ; a
\* further request is issued only after a full page that left the
\* accumulated logs below the reported total ; the fetch holds at most
\* MaxPages * limit logs, and it always ends.
C24_BoundedTrendFetch ==
    /\ [](\A c \in Channels :
            LET f == fetch[c] IN
              /\ Len(f.reqs) <= MaxPages
              /\ \A k \in 1..Len(f.reqs) :
                   f.reqs[k] = [limit |-> Limit, offset |-> (k - 1) * Limit]
              /\ f.n <= MaxPages * Limit
              /\ f.pc = "await" /\ Len(f.reqs) > 1 =>
                   f.last.len = Limit /\ ~f.last.reached
              /\ f.pc = "done" /\ Len(f.reqs) < MaxPages =>
                   f.last.reached \/ f.last.len < Limit)
    /\ <>[](\A c \in Channels : FetchEnded(c))

C24_Witness ==
    /\ fetch["antigravity"].pc = "done"
    /\ Len(fetch["antigravity"].reqs) = MaxPages
    /\ fetch["antigravity"].n = MaxPages * Limit
    /\ fetch["antigravity"].reqs[MaxPages].offset = (MaxPages - 1) * Limit
    /\ fetch["kiro"].pc = "done"
    /\ Len(fetch["kiro"].reqs) = 2
    /\ fetch["kiro"].last.len < Limit

(***************************************************************************)
(* Part VII - properties of the analytics page (under SpecPage)            *)
(***************************************************************************)
\* the channel the first usage request is due for
FirstChannel == IF ui.lookup = "ok" /\ ui.deflt # "none" THEN ui.deflt ELSE "antigravity"

\* C25: no usage request is issued before the default-channel lookup has
\* settled ; whether it resolves or rejects, isTabInitialized becomes true,
\* and with it the first usage request is issued: for the configured
\* default channel when the lookup returned one, else for antigravity.
C25_InitBeforeUsage ==
    /\ [](ui.lookup \in {"idle", "pending"} => issued = <<>> /\ ~ui.initialized)
    /\ [](ui.lookup \in {"ok", "failed"} =>
            /\ ui.initialized
            /\ issued # <<>>
            /\ issued[1] = [tab |-> FirstChannel, page |-> 1])
    /\ <>(ui.initialized /\ issued # <<>>)

C25_Witness ==
    /\ ui.lookup = "ok"
    /\ ui.deflt = "kiro"
    /\ issued = <<[tab |-> "kiro", page |-> 1]>>
    /\ inflight # {}
    /\ ui.loading

\* C28: when the channel or the page number is changed while an earlier
\* request is still in flight, then once every in-flight request has
\* settled with data the displayed stats, logs and total are those of the
\* most recently selected channel and page, in whatever order the
\* responses arrive.
C28_LatestSelectionWins ==
    ui.initialized /\ inflight = {} /\ ui.shown.kind = "data" =>
        /\ ui.shown.tab = ui.activeTab
        /\ ui.shown.page = ui.currentPage

(***************************************************************************)
(* Part VIII - properties of the trend chart (under SpecChart)             *)
(***************************************************************************)
\* the chart shows the points of a finished load
ChartShown == chart.pc = "shown" /\ ~chart.error

\* the fetched logs whose created_at lies in [now - N hours, now]
InWindow(record) ==
    /\ record.created_at # <<>>
    /\ record.created_at[1] >= chart.now - chart.hours * TicksPerHour
    /\ record.created_at[1] <= chart.now

\* the position of an hour key on the time line
KeyIndex(key) == key[1] * 24 + key[2]

\* C29: for the selected range of N hours the chart has exactly N points
\* with distinct consecutive UTC hour keys, and every fetched log whose
\* created_at lies in the window [now - N hours, now] contributes its
\* total_tokens to exactly one chart point.
C29_BucketCoverage ==
    ChartShown =>
        /\ Len(chart.data) = chart.hours
        /\ \A n \in 1..(Len(chart.data) - 1) :
              KeyIndex(chart.data[n + 1].time) = KeyIndex(chart.data[n].time) + 1
        /\ \A k \in DOMAIN chart.logs :
              InWindow(chart.logs[k]) =>
                 Cardinality({n \in DOMAIN chart.data :
                     /\ chart.data[n].time = HourKey(chart.logs[k].created_at[1])
                     /\ chart.data[n][chart.logs[k].channel] >= Tokens(chart.logs[k])}) = 1

(***************************************************************************)
(* Part I - the two forms of the main-database block (under SpecBoot)      *)
(***************************************************************************)
\* sync-db.sh, sync-plugin-db.sh: ALTER USER, then one CASE
CaseBlock == <<"connect1", "alter_su", "case_main">>
\* deploy.sh of both generations: ALTER USER, then two guarded statements
GuardedBlock == <<"connect1", "alter_su", "create_main", "alter_main">>

MainBlock(sc) ==
    IF sc \in {"sync_db", "sync_plugin_db"} THEN CaseBlock ELSE GuardedBlock
OtherBlock(sc) ==
    IF sc \in {"sync_db", "sync_plugin_db"} THEN GuardedBlock ELSE CaseBlock

\* the steps of a block run from cluster c under configuration cf, the
\* server reachable and accepting every statement it can execute
RECURSIVE BlockRun(_, _, _)
BlockRun(steps, c, cf) ==
    IF steps = <<>> THEN Outcome(TRUE, c)
    ELSE IF Head(steps) = "connect1"
         THEN IF RoleExists(c, cf.su_user)
              THEN BlockRun(Tail(steps), c, cf)
              ELSE Outcome(FALSE, c)
         ELSE LET rows == Rows(Head(steps), c, cf) IN
              IF rows = <<>> THEN BlockRun(Tail(steps), c, cf)
              ELSE LET out == Exec(c, rows[1]) IN
                   IF out.ok THEN BlockRun(Tail(steps), out.c, cf)
                   ELSE Outcome(FALSE, c)

\* what the claim compares: the role password, the existence of the main
\* database and its owner
MainState(c, cf) ==
    [pass |-> c.pass[cf.su_user],
     exists |-> DbExists(c, cf.main_db),
     owner |-> c.owner[cf.main_db]]

\* the script has just run its main-database block to the end
MainBlockDone == pc = Len(MainBlock(script)) + 1

=============================================================================
